---- MODULE Spec2Model ----
(***************************************************************************)
(* A model of the IRC client library's protocol tracker                    *)
(* (src/src/server/mod.rs): the ServerIterator that pulls lines from the   *)
(* connection, IrcServer::handle_message that answers PING, auto-joins on  *)
(* 376/422 and keeps the per-channel user rosters, and list_users.         *)
(*                                                                         *)
(* Strings are sequences of atoms.  An atom is one character (" ", "!",    *)
(* "~", "a", ...) or a run of characters the code never looks into         *)
(* ("#c1", "PING", "u@h").  Option<T> is a sequence of length 0 or 1.      *)
(***************************************************************************)
EXTENDS Naturals, Sequences, FiniteSets, TLC

VARIABLES
  config,     \* IrcServer.config: the channels to auto-join and their keys
  chanlists,  \* IrcServer.chanlists: HashMap<String, Vec<User>>
  written,    \* the messages written to the connection's outbound side
  cause,      \* for each written message, the index in `received` of the
              \* inbound message whose handling wrote it
  received,   \* the lines conn.recv() has returned as Ok(..), in order
  yielded,    \* the messages ServerIterator::next has returned as Some(..)
  pc,         \* "running", or "panicked" once an unwrap or index failed
  ended,      \* next() has returned None at least once
  \* the tracker run next to a second thread that holds the same IrcServer
  task,       \* the inbound thread's place inside handle_message
  queue,      \* the connection's outbound queue
  wire,       \* the bytes the connection has written to its stream
  observed,   \* what the second thread's last list_users call returned
  \* LineCodec (src/irc-proto/src/line.rs)
  src,        \* the unframed bytes handed to decode
  next_index, \* LineCodec.next_index
  decoded,    \* what the last decode call returned, and the index it
              \* started its scan from
  fed,        \* every byte appended to src so far
  lines,      \* the lines decode has returned as Ok(Some(..)), in order
  \* Connection::new (src/src/client/conn.rs)
  conn,       \* the construction in progress or finished
  build       \* the cargo features the library was built with

servervars == <<config, chanlists, written, cause, received, yielded, pc, ended>>

concvars == <<task, queue, wire, observed>>

linevars == <<src, next_index, decoded, fed, lines>>

vars == <<config, chanlists, written, cause, received, yielded, pc, ended,
          task, queue, wire, observed,
          src, next_index, decoded, fed, lines, conn, build>>

\* The number of inbound lines one behaviour reads.
MaxMsgs == 3

-----------------------------------------------------------------------------
\* Option<T>

None == <<>>

Some(x) == <<x>>

IsSome(o) == o # <<>>

Unwrap(o) == o[1]

\* A one-atom string.
Str(a) == <<a>>

-----------------------------------------------------------------------------
\* Strings: str::find, slicing and str::split_str

\* source.find(ch): the position of the first ch in s, 0 when there is none.
Find(s, ch) ==
  IF \E i \in 1..Len(s) : s[i] = ch
  THEN CHOOSE i \in 1..Len(s) : s[i] = ch /\ \A j \in 1..(i - 1) : s[j] # ch
  ELSE 0

\* users.split_str(sep): the pieces between the separators, empty ones kept.
RECURSIVE SplitStr(_, _)
SplitStr(s, sep) ==
  LET i == Find(s, sep) IN
  IF i = 0 THEN <<s>>
  ELSE <<SubSeq(s, 1, i - 1)>> \o SplitStr(SubSeq(s, i + 1, Len(s)), sep)

-----------------------------------------------------------------------------
\* data::user::User

Sigils == {"~", "&", "@", "%", "+"}

LevelOfSigil(c) ==
  CASE c = "~" -> "Owner"
    [] c = "&" -> "Admin"
    [] c = "@" -> "Oper"
    [] c = "%" -> "HalfOp"
    [] c = "+" -> "Voice"
    [] OTHER   -> "Member"

Rank(level) ==
  CASE level = "Owner"  -> 5
    [] level = "Admin"  -> 4
    [] level = "Oper"   -> 3
    [] level = "HalfOp" -> 2
    [] level = "Voice"  -> 1
    [] OTHER            -> 0

LevelOfMode(letter) ==
  CASE letter = "q" -> "Owner"
    [] letter = "a" -> "Admin"
    [] letter = "o" -> "Oper"
    [] letter = "h" -> "HalfOp"
    [] letter = "v" -> "Voice"
    [] OTHER        -> "Member"

LevelBelow(level) ==
  CASE level = "Owner"  -> "Admin"
    [] level = "Admin"  -> "Oper"
    [] level = "Oper"   -> "HalfOp"
    [] level = "HalfOp" -> "Voice"
    [] OTHER            -> "Member"

\* User::new(name): the sigil, when there is one, gives the access level and
\* is stripped from the nickname.
UserNew(s) ==
  IF s # <<>> /\ s[1] \in Sigils
  THEN [name |-> Tail(s), access_level |-> LevelOfSigil(s[1])]
  ELSE [name |-> s, access_level |-> "Member"]

\* PartialEq for User: by bare nickname.
UserEq(u, v) == u.name = v.name

\* User::update_access_level(mode): "+x" raises to x's role when that is
\* higher than the current one, "-x" drops a user holding x's role to the
\* role below; any other mode string changes nothing.
UpdateAccessLevel(u, mode) ==
  IF Len(mode) = 2 /\ mode[1] = "+" /\ LevelOfMode(mode[2]) # "Member"
  THEN IF Rank(LevelOfMode(mode[2])) > Rank(u.access_level)
       THEN [u EXCEPT !.access_level = LevelOfMode(mode[2])]
       ELSE u
  ELSE IF Len(mode) = 2 /\ mode[1] = "-" /\ LevelOfMode(mode[2]) # "Member"
  THEN IF u.access_level = LevelOfMode(mode[2])
       THEN [u EXCEPT !.access_level = LevelBelow(LevelOfMode(mode[2]))]
       ELSE u
  ELSE u

-----------------------------------------------------------------------------
\* Vec<User>

\* vec.as_slice().position_elem(&u): the first position holding a user equal
\* to u, 0 when there is none.
PositionElem(vec, u) ==
  IF \E i \in 1..Len(vec) : UserEq(vec[i], u)
  THEN CHOOSE i \in 1..Len(vec) :
         UserEq(vec[i], u) /\ \A j \in 1..(i - 1) : ~UserEq(vec[j], u)
  ELSE 0

\* vec.swap_remove(n): the element at n is replaced by the last element and
\* the vector shortened by one.
SwapRemove(vec, n) ==
  [i \in 1..(Len(vec) - 1) |-> IF i = n THEN vec[Len(vec)] ELSE vec[i]]

-----------------------------------------------------------------------------
\* data::message::Message and the commands the tracker sends

Msg(p, c, a, s) == [prefix |-> p, command |-> c, args |-> a, suffix |-> s]

\* PONG(token, None).to_message(): "PONG :token"
PONG(token) == Msg(None, Str("PONG"), <<>>, Some(token))

\* JOIN(chan, None).to_message(): "JOIN chan"
JOIN(chan) == Msg(None, Str("JOIN"), <<chan>>, None)

\* JOIN(chan, Some(key)).to_message(): "JOIN chan key"
JOINKey(chan, key) == Msg(None, Str("JOIN"), <<chan, key>>, None)

-----------------------------------------------------------------------------
\* IrcServer

\* HashMap::insert(k, v)
Insert(map, k, v) ==
  [x \in (DOMAIN map) \cup {k} |-> IF x = k THEN v ELSE map[x]]

\* list_users(chan): a copy of the roster, None when the map has no such key.
ListUsers(chan) ==
  IF chan \in DOMAIN chanlists THEN Some(chanlists[chan]) ELSE None

\* What handle_message leaves behind: whether it panicked, the map, and the
\* messages it sent.  Each send writes one message to the end of the
\* connection's outbound side; the writer takes every write, as the MemWriter
\* of the tests does.
Done(cl, out) == [panicked |-> FALSE, chanlists |-> cl, sent |-> out]

Panic(cl, out) == [panicked |-> TRUE, chanlists |-> cl, sent |-> out]

\* HandlePing with the reply left out.
HandlePingNoReply(message, cl) ==
  IF IsSome(message.suffix) THEN Done(cl, <<>>) ELSE Panic(cl, <<>>)

\* "PING": self.send(PONG(message.suffix.as_ref().unwrap()[], None)).unwrap()
HandlePing(message, cl) ==
  IF IsSome(message.suffix)
  THEN Done(cl, <<PONG(Unwrap(message.suffix))>>)
  ELSE Panic(cl, <<>>)

\* "376" / "422": for chan in self.config.channels.iter() { send(JOIN(chan, None)) }
HandleEndOfMotd(cfg, cl) ==
  Done(cl, [i \in 1..Len(cfg.channels) |-> JOIN(cfg.channels[i])])

\* One turn of the 353 loop: push onto the channel's vector, or insert a new
\* vector holding the user when the map has no such channel.
NamesPush(cl, chan, user) ==
  IF chan \in DOMAIN cl
  THEN [cl EXCEPT ![chan] = Append(@, UserNew(user))]
  ELSE Insert(cl, chan, <<UserNew(user)>>)

RECURSIVE NamesLoop(_, _, _)
NamesLoop(cl, chan, users) ==
  IF users = <<>> THEN cl
  ELSE NamesLoop(NamesPush(cl, chan, Head(users)), chan, Tail(users))

\* "353": needs a suffix and exactly three arguments [_, _, chan].
HandleNames(message, cl) ==
  IF IsSome(message.suffix) /\ Len(message.args) = 3
  THEN Done(NamesLoop(cl, message.args[3], SplitStr(Unwrap(message.suffix), " ")), <<>>)
  ELSE Done(cl, <<>>)

\* The vector after a JOIN or PART from the nick in front of the '!'.
JoinPartVec(vec, command, nick) ==
  IF command = Str("JOIN")
  THEN Append(vec, UserNew(nick))
  ELSE LET n == PositionElem(vec, UserNew(nick)) IN
       IF n # 0 THEN SwapRemove(vec, n) ELSE vec

\* "JOIN" / "PART": the channel is the suffix, or else args[0] (which panics
\* when there are no arguments).
HandleJoinPart(message, cl) ==
  IF ~IsSome(message.suffix) /\ Len(message.args) = 0
  THEN Panic(cl, <<>>)
  ELSE LET chan   == IF IsSome(message.suffix) THEN Unwrap(message.suffix)
                     ELSE message.args[1]
           source == message.prefix
           i      == IF IsSome(source) THEN Find(Unwrap(source), "!") ELSE 0
       IN IF chan \in DOMAIN cl /\ IsSome(source) /\ i # 0
          THEN Done([cl EXCEPT ![chan] =
                       JoinPartVec(@, message.command, SubSeq(Unwrap(source), 1, i - 1))],
                    <<>>)
          ELSE Done(cl, <<>>)

\* HandleMode updating every user of the channel's vector.
HandleModeAll(message, cl) ==
  LET chan == message.args[1]
      mode == message.args[2]
  IN IF chan \in DOMAIN cl
     THEN Done([cl EXCEPT ![chan] =
                  [i \in 1..Len(@) |-> UpdateAccessLevel(@[i], mode)]], <<>>)
     ELSE Done(cl, <<>>)

\* HandleMode pushing the user with its new level, as the JOIN branch pushes.
HandleModePush(message, cl) ==
  LET chan == message.args[1]
      mode == message.args[2]
      user == message.args[3]
  IN IF chan \in DOMAIN cl
     THEN Done([cl EXCEPT ![chan] = Append(@, UpdateAccessLevel(UserNew(user), mode))], <<>>)
     ELSE Done(cl, <<>>)

\* HandleMode updating the user on the vector of every channel.
HandleModeEveryChannel(message, cl) ==
  LET mode == message.args[2]
      user == message.args[3]
  IN Done([ch \in DOMAIN cl |->
             LET n == PositionElem(cl[ch], UserNew(user)) IN
             IF n # 0 THEN [cl[ch] EXCEPT ![n] = UpdateAccessLevel(@, mode)]
             ELSE cl[ch]], <<>>)

\* ("MODE", [chan, mode, user]): update the access level of the first user
\* of the channel's vector that equals User::new(user).
HandleMode(message, cl) ==
  LET chan == message.args[1]
      mode == message.args[2]
      user == message.args[3]
  IN IF chan \in DOMAIN cl
     THEN LET n == PositionElem(cl[chan], UserNew(user)) IN
          IF n # 0
          THEN Done([cl EXCEPT ![chan][n] = UpdateAccessLevel(@, mode)], <<>>)
          ELSE Done(cl, <<>>)
     ELSE Done(cl, <<>>)

\* handle_message: the if / else-if chain on message.command.
HandleMessage(message, cfg, cl) ==
  IF message.command = Str("PING") THEN HandlePing(message, cl)
  ELSE IF message.command = Str("376") \/ message.command = Str("422")
  THEN HandleEndOfMotd(cfg, cl)
  ELSE IF message.command = Str("353") THEN HandleNames(message, cl)
  ELSE IF message.command = Str("JOIN") \/ message.command = Str("PART")
  THEN HandleJoinPart(message, cl)
  ELSE IF message.command = Str("MODE") /\ Len(message.args) = 3
  THEN HandleMode(message, cl)
  ELSE Done(cl, <<>>)

-----------------------------------------------------------------------------
\* The inputs: configurations and inbound lines

c1 == Str("#c1")

c2 == Str("#c2")

NoKeys == [ch \in {} |-> <<>>]

\* Config: `channels` in join order, `channel_keys` for some of them.
Configs ==
  { [channels |-> <<c1, c2>>, channel_keys |-> NoKeys],
    [channels |-> <<c2, c1>>, channel_keys |-> [ch \in {c1} |-> Str("key")]] }

Server == Some(Str("irc.test.net"))

\* nick!user@host
From(nick) == Some(<<nick, "!", "u@h">>)

Names(chan, users) == Msg(Server, Str("353"), <<Str("me"), Str("="), chan>>, Some(users))

InboundMessages ==
  { \* keep-alive and registration
    Msg(None, Str("PING"), <<>>, Some(Str("x"))),
    Msg(None, Str("PING"), <<>>, Some(Str("y"))),
    Msg(None, Str("PING"), <<>>, None),
    Msg(Server, Str("376"), <<Str("me")>>, Some(Str("End of /MOTD command."))),
    Msg(Server, Str("422"), <<Str("me")>>, Some(Str("No MOTD."))),
    \* 353
    Names(c1, <<"a", " ", "~", "b", " ", "&", "c">>),
    Names(c1, <<"b", " ", "a">>),
    Names(c1, <<"a", " ", "b", " ">>),
    Names(c1, <<"@", "c">>),
    Names(c2, <<"a", " ", "+", "b">>),
    Msg(Server, Str("353"), <<Str("me"), Str("="), c1>>, None),
    Msg(Server, Str("353"), <<Str("me"), c1>>, Some(<<"a">>)),
    \* JOIN and PART, the channel as an argument or as the suffix
    Msg(From("a"), Str("JOIN"), <<c1>>, None),
    Msg(From("d"), Str("JOIN"), <<>>, Some(c1)),
    Msg(From("a"), Str("JOIN"), <<c2>>, None),
    Msg(Some(Str("a")), Str("JOIN"), <<c1>>, None),
    Msg(None, Str("JOIN"), <<c1>>, None),
    Msg(From("a"), Str("JOIN"), <<>>, None),
    Msg(From("a"), Str("PART"), <<c1>>, None),
    Msg(From("b"), Str("PART"), <<>>, Some(c1)),
    Msg(From("c"), Str("PART"), <<c1>>, None),
    Msg(From("a"), Str("PART"), <<c2>>, None),
    Msg(Some(Str("a")), Str("PART"), <<c1>>, None),
    Msg(From("a"), Str("PART"), <<>>, None),
    \* MODE
    Msg(From("a"), Str("MODE"), <<c1, <<"+", "o">>, Str("a")>>, None),
    Msg(From("a"), Str("MODE"), <<c1, <<"+", "o">>, Str("b")>>, None),
    Msg(From("a"), Str("MODE"), <<c1, <<"-", "o">>, Str("c")>>, None),
    Msg(From("a"), Str("MODE"), <<c1, <<"+", "v">>, Str("b")>>, None),
    Msg(From("a"), Str("MODE"), <<c2, <<"+", "o">>, Str("a")>>, None),
    Msg(From("a"), Str("MODE"), <<Str("a"), <<"+", "i">>>>, None),
    \* commands the tracker has no branch for
    Msg(From("a"), Str("QUIT"), <<>>, Some(Str("bye"))),
    Msg(From("a"), Str("KICK"), <<c1, Str("b")>>, Some(Str("out"))),
    Msg(From("a"), Str("NICK"), <<>>, Some(Str("d"))),
    Msg(From("a"), Str("PRIVMSG"), <<c1>>, Some(Str("Hi!"))),
    Msg(Server, Str("001"), <<Str("me")>>, Some(Str("Welcome"))) }

\* A line recv() returned, with what from_str makes of it.
Line(parsed) == [parsed |-> parsed]

Lines ==
  { Line(Some(m)) : m \in InboundMessages } \cup { Line(None) }

\* from_str(msg[]): Some(message), or None for a line that does not parse.
FromStr(line) == line.parsed

-----------------------------------------------------------------------------
\* The parts of the state a specification does not use stay at these values.

Idle == <<>>

ConcUnused == task = Idle /\ queue = <<>> /\ wire = <<>> /\ observed = Idle

LineUnused ==
  src = <<>> /\ next_index = 0 /\ decoded = Idle /\ fed = <<>> /\ lines = <<>>

ConnUnused == conn = Idle /\ build = Idle

-----------------------------------------------------------------------------
\* ServerIterator

InitServer ==
  /\ config \in Configs
  /\ chanlists = [ch \in {} |-> <<>>]
  /\ written = <<>>
  /\ cause = <<>>
  /\ received = <<>>
  /\ yielded = <<>>
  /\ pc = "running"
  /\ ended = FALSE

Init == InitServer /\ ConcUnused /\ LineUnused /\ ConnUnused

\* next(), conn.recv() returning Err(_): the iterator yields None.
NextErr ==
  /\ pc = "running"
  /\ ended' = TRUE
  /\ UNCHANGED <<config, chanlists, written, cause, received, yielded, pc>>
  /\ UNCHANGED <<concvars, linevars, conn, build>>

\* next(), conn.recv() returning Ok(msg): parse it, handle it, yield it.  The
\* unwrap of a None from from_str panics, and so may handle_message.
NextOk ==
  /\ pc = "running"
  /\ Len(received) < MaxMsgs
  /\ \E line \in Lines :
       LET message == FromStr(line) IN
       /\ received' = Append(received, line)
       /\ IF ~IsSome(message)
          THEN /\ pc' = "panicked"
               /\ UNCHANGED <<chanlists, written, cause, yielded>>
          ELSE LET r == HandleMessage(Unwrap(message), config, chanlists) IN
               /\ chanlists' = r.chanlists
               /\ written' = written \o r.sent
               /\ cause' = cause \o [k \in 1..Len(r.sent) |-> Len(received) + 1]
               /\ IF r.panicked
                  THEN pc' = "panicked" /\ UNCHANGED yielded
                  ELSE pc' = pc /\ yielded' = Append(yielded, Unwrap(message))
  /\ UNCHANGED <<config, ended>>
  /\ UNCHANGED <<concvars, linevars, conn, build>>

Next == NextErr \/ NextOk

Spec == Init /\ [][Next]_vars

-----------------------------------------------------------------------------
\* Vocabulary of the properties

\* The messages among the received lines, in arrival order.
ReceivedMessages ==
  LET ok(l) == IsSome(l.parsed)
      ls == SelectSeq(received, ok)
  IN [i \in 1..Len(ls) |-> Unwrap(ls[i].parsed)]

\* The line at position i of `received` is a message with this command.
IsCommand(i, cmd) ==
  /\ IsSome(received[i].parsed)
  /\ Unwrap(received[i].parsed).command = Str(cmd)

\* The latest line was a message with this command and its handling completed.
LastHandled(cmd) ==
  /\ received # <<>>
  /\ pc = "running"
  /\ IsCommand(Len(received), cmd)

LastMessage == Unwrap(received[Len(received)].parsed)

\* This step is next() reading a message with this command and handling it
\* to completion.
Handles(cmd) ==
  /\ Len(received') = Len(received) + 1
  /\ pc' = "running"
  /\ IsSome(received'[Len(received')].parsed)
  /\ Unwrap(received'[Len(received')].parsed).command = Str(cmd)

StepMessage == Unwrap(received'[Len(received')].parsed)

\* The sender is a user: the prefix is nick!user@host.
HasNickPrefix(m) == IsSome(m.prefix) /\ Find(Unwrap(m.prefix), "!") # 0

\* The nick of a nick!user@host prefix.
SenderNick(m) == SubSeq(Unwrap(m.prefix), 1, Find(Unwrap(m.prefix), "!") - 1)

\* The channel of a JOIN or PART: the first argument, or else the suffix.
ChannelOf(m) == IF m.args # <<>> THEN m.args[1] ELSE Unwrap(m.suffix)

\* The roster of a channel in a map, empty when there is none.
RosterIn(cl, chan) == IF chan \in DOMAIN cl THEN cl[chan] ELSE <<>>

OnRoster(cl, chan, nick) ==
  \E i \in 1..Len(RosterIn(cl, chan)) : RosterIn(cl, chan)[i].name = nick

RemoveAt(seq, n) == SubSeq(seq, 1, n - 1) \o SubSeq(seq, n + 1, Len(seq))

\* A roster as the data model has it: no empty nickname, none twice.
WellFormed(roster) ==
  /\ \A i \in 1..Len(roster) : roster[i].name # <<>>
  /\ \A i, j \in 1..Len(roster) : i # j => roster[i].name # roster[j].name

\* The whitespace-separated words of a string.
Words(s) ==
  LET nonempty(w) == w # <<>> IN SelectSeq(SplitStr(s, " "), nonempty)

\* The messages written while handling the line at position i of `received`.
WrittenBy(i) ==
  LET ks == {k \in 1..Len(written) : cause[k] = i}
  IN IF ks = {} THEN <<>>
     ELSE SubSeq(written,
                 CHOOSE k \in ks : \A j \in ks : k <= j,
                 CHOOSE k \in ks : \A j \in ks : j <= k)

-----------------------------------------------------------------------------
\* C1: after any sequence of inbound 353, JOIN, PART and MODE messages, no
\* roster holds the same bare nickname twice.
C1_UniqueNicks ==
  (\A i \in 1..Len(received) :
      \E cmd \in {"353", "JOIN", "PART", "MODE"} : IsCommand(i, cmd))
  => \A ch \in DOMAIN chanlists :
       \A i, j \in 1..Len(chanlists[ch]) :
         i # j => chanlists[ch][i].name # chanlists[ch][j].name

\* C2: a PART by a user on a (well-formed) roster leaves the previous roster
\* with that one entry deleted and the others in their previous order.
C2_RemovalKeepsOrder ==
  [][ (/\ Handles("PART")
       /\ HasNickPrefix(StepMessage)
       /\ WellFormed(RosterIn(chanlists, ChannelOf(StepMessage)))
       /\ OnRoster(chanlists, ChannelOf(StepMessage), SenderNick(StepMessage)))
      => LET ch == ChannelOf(StepMessage)
             n  == PositionElem(chanlists[ch], UserNew(SenderNick(StepMessage)))
         IN ch \in DOMAIN chanlists' /\ chanlists'[ch] = RemoveAt(chanlists[ch], n)
    ]_vars

\* C3: every inbound PING with a token x is answered, while it is handled,
\* by exactly one written message, PONG x; that PONG precedes whatever a
\* later inbound message caused to be written, and there are as many PONGs
\* written as PINGs with a token received.
IsPingWithToken(i) ==
  IsCommand(i, "PING") /\ IsSome(Unwrap(received[i].parsed).suffix)

C3_PongBeforeLater ==
  /\ \A i \in 1..Len(received) :
       IsPingWithToken(i) =>
         /\ WrittenBy(i) = <<PONG(Unwrap(Unwrap(received[i].parsed).suffix))>>
         /\ \A k, k2 \in 1..Len(written) :
              cause[k] = i /\ cause[k2] > i => k < k2
  /\ Cardinality({k \in 1..Len(written) : written[k].command = Str("PONG")})
       = Cardinality({i \in 1..Len(received) : IsPingWithToken(i)})

\* A PING with a token was received and a later inbound message caused a
\* write of its own.
C3_Witness ==
  \E i \in 1..Len(received) : \E k \in 1..Len(written) :
    IsPingWithToken(i) /\ cause[k] > i

\* C4: on 376 or 422 the client writes one JOIN per configured channel, in
\* the list's order, with the channel's key when channel_keys holds one.
JoinFor(cfg, chan) ==
  IF chan \in DOMAIN cfg.channel_keys
  THEN JOINKey(chan, cfg.channel_keys[chan])
  ELSE JOIN(chan)

C4_AutoJoinWithKeys ==
  \A i \in 1..Len(received) :
    IsCommand(i, "376") \/ IsCommand(i, "422") =>
      WrittenBy(i) = [k \in 1..Len(config.channels) |-> JoinFor(config, config.channels[k])]

\* C5: the messages yielded to the consumer are the messages received, in
\* arrival order and unchanged.
C5_YieldsEveryMessage == yielded = ReceivedMessages

\* C6: a 353 for channel c leaves c's roster as the previous roster (empty
\* when there was none) followed by the whitespace-separated users of the
\* trailing parameter, in the listed order, each with its sigil's level.
C6_NamesAppends ==
  [][ (/\ Handles("353")
       /\ IsSome(StepMessage.suffix)
       /\ Len(StepMessage.args) = 3)
      => LET ch == StepMessage.args[3]
             ws == Words(Unwrap(StepMessage.suffix))
         IN /\ ch \in DOMAIN chanlists'
            /\ chanlists'[ch] =
                 RosterIn(chanlists, ch) \o [k \in 1..Len(ws) |-> UserNew(ws[k])]
    ]_vars

\* C7: after a JOIN for channel c from nick n, c's roster is the previous
\* roster (empty when there was none) followed by n at Member level.
C7_JoinAppends ==
  [][ (Handles("JOIN") /\ HasNickPrefix(StepMessage))
      => LET ch == ChannelOf(StepMessage) IN
         /\ ch \in DOMAIN chanlists'
         /\ chanlists'[ch] =
              Append(RosterIn(chanlists, ch),
                     [name |-> SenderNick(StepMessage), access_level |-> "Member"])
    ]_vars

\* C8: after a PART for channel c from nick n, whether c is an argument or
\* the suffix, c's roster holds no user whose bare nickname is n.
C8_PartRemoves ==
  (LastHandled("PART") /\ HasNickPrefix(LastMessage))
  => ~OnRoster(chanlists, ChannelOf(LastMessage), SenderNick(LastMessage))

\* C9: after a QUIT from nick n, no roster holds n.
C9_QuitRemovesEverywhere ==
  (LastHandled("QUIT") /\ HasNickPrefix(LastMessage))
  => \A ch \in DOMAIN chanlists : ~OnRoster(chanlists, ch, SenderNick(LastMessage))

\* C10: after KICK <chan> <target>, chan's roster does not hold the target.
C10_KickRemovesTarget ==
  (LastHandled("KICK") /\ Len(LastMessage.args) >= 2)
  => ~OnRoster(chanlists, LastMessage.args[1], LastMessage.args[2])


\* C11: after NICK <new> from nick n, every roster has <new> wherever it had
\* n, at the same position, and is otherwise as before.
NewNick(m) == IF m.args # <<>> THEN m.args[1] ELSE Unwrap(m.suffix)

C11_NickRenames ==
  [][ (Handles("NICK") /\ HasNickPrefix(StepMessage))
      => chanlists' =
           [ch \in DOMAIN chanlists |->
              [i \in 1..Len(chanlists[ch]) |->
                 IF chanlists[ch][i].name = SenderNick(StepMessage)
                 THEN [chanlists[ch][i] EXCEPT !.name = NewNick(StepMessage)]
                 ELSE chanlists[ch][i]]]
    ]_vars

\* This step handles MODE <chan> +o <user> for a user on chan's roster.
HandlesOpFor ==
  /\ Handles("MODE")
  /\ Len(StepMessage.args) = 3
  /\ StepMessage.args[2] = <<"+", "o">>
  /\ OnRoster(chanlists, StepMessage.args[1], StepMessage.args[3])

\* The position of the user's (first) entry on the channel's roster.
EntryOf(cl, chan, nick) ==
  CHOOSE i \in 1..Len(cl[chan]) :
    cl[chan][i].name = nick /\ \A j \in 1..(i - 1) : cl[chan][j].name # nick

\* C12, as claimed: MODE <chan> +o <user> sets the user's access level to
\* Oper and changes nothing else.
C12_ModeSetsOper ==
  [][ HandlesOpFor
      => LET ch == StepMessage.args[1]
             n  == EntryOf(chanlists, ch, StepMessage.args[3])
         IN chanlists' = [chanlists EXCEPT ![ch][n].access_level = "Oper"]
    ]_vars

\* C12, amended: MODE <chan> +o <user> raises the user's access level to
\* Oper when it was below Oper and leaves a higher level as it is; every
\* other user, the membership and the order of every roster are unchanged.
C12_ModeRaisesToOper ==
  [][ HandlesOpFor
      => LET ch == StepMessage.args[1]
             n  == EntryOf(chanlists, ch, StepMessage.args[3])
         IN chanlists' =
              [chanlists EXCEPT ![ch][n].access_level =
                 IF @ \in {"Member", "Voice", "HalfOp"} THEN "Oper" ELSE @]
    ]_vars

\* A 353 listing several users, then MODE +o for one of them that was a
\* Member and is now Oper.
C12_Witness ==
  /\ Len(received) >= 2
  /\ IsCommand(Len(received) - 1, "353")
  /\ LastHandled("MODE")
  /\ Len(LastMessage.args) = 3
  /\ LastMessage.args[2] = <<"+", "o">>
  /\ LET ch == LastMessage.args[1] IN
     /\ ch \in DOMAIN chanlists
     /\ Len(chanlists[ch]) >= 3
     /\ \E i \in 1..Len(chanlists[ch]) :
          chanlists[ch][i] = [name |-> LastMessage.args[3], access_level |-> "Oper"]

\* C13: handling the same MODE <chan> <+/-letter> <user> a second time,
\* directly after the first, changes no roster.
C13_ModeIdempotent ==
  [][ (/\ Handles("MODE")
       /\ Len(StepMessage.args) = 3
       /\ received # <<>>
       /\ received[Len(received)] = Line(Some(StepMessage)))
      => chanlists' = chanlists
    ]_vars

\* The same MODE -o handled twice after a 353 that listed the user as Oper:
\* the first dropped the level, the second left it.
C13_Witness ==
  /\ Len(received) >= 3
  /\ LastHandled("MODE")
  /\ received[Len(received) - 1] = received[Len(received)]
  /\ IsCommand(Len(received) - 2, "353")
  /\ Len(LastMessage.args) = 3
  /\ LastMessage.args[2] = <<"-", "o">>
  /\ LET ch == LastMessage.args[1] IN
     /\ ch \in DOMAIN chanlists
     /\ \E i \in 1..Len(chanlists[ch]) :
          chanlists[ch][i] = [name |-> LastMessage.args[3], access_level |-> "HalfOp"]

\* C14: a line the IRC codec cannot parse does not abort the inbound stream.
C14_UnparsableLineSkipped ==
  (received # <<>> /\ ~IsSome(received[Len(received)].parsed)) => pc = "running"

\* C17: once next() has returned None, no later call reads, handles or
\* yields a message.
C17_EndOfStreamIsFinal ==
  [][ ended => (received' = received /\ yielded' = yielded) ]_vars

-----------------------------------------------------------------------------
\* The tracker next to a second thread: IrcServer's methods take &self, and
\* chanlists sits in a Mutex, so a second thread may call list_users and send
\* while the first drives the iterator.  One action is one critical section
\* of the chanlists mutex, or one call of send.

MaxConcMsgs == 2

MaxSends == 3

RECURSIVE Concat(_)
Concat(ss) == IF ss = <<>> THEN <<>> ELSE Head(ss) \o Concat(Tail(ss))

\* Message::into_string: [":" prefix " "] command {" " arg} [" :" suffix] "\r\n"
Serialize(m) ==
  (IF IsSome(m.prefix) THEN <<":">> \o Unwrap(m.prefix) \o <<" ">> ELSE <<>>)
  \o m.command
  \o Concat([i \in 1..Len(m.args) |-> <<" ">> \o m.args[i]])
  \o (IF IsSome(m.suffix) THEN <<" ", ":">> \o Unwrap(m.suffix) ELSE <<>>)
  \o <<"\r", "\n">>

SerializeAll(ms) == Concat([i \in 1..Len(ms) |-> Serialize(ms[i])])

\* Connection::send(message): the message joins the end of the outbound queue.
Enqueue(q, message) == Append(q, message)

\* IrcServer::send with the command put at the head of the queue.
SendFirst(q, command) == <<command>> \o q

\* IrcServer::send(command): self.conn.send(command.to_message()).  The
\* command builders of this model already give the command as its message.
Send(q, command) == Enqueue(q, command)

RECURSIVE SendAll(_, _)
SendAll(q, commands) ==
  IF commands = <<>> THEN q
  ELSE SendAll(Send(q, Head(commands)), Tail(commands))

PRIVMSG(target, text) == Msg(None, Str("PRIVMSG"), <<target>>, Some(text))

\* What the second thread sends.
UserCommands == { PRIVMSG(c1, Str("Hi there!")) }

\* The inbound lines of the two-thread runs.
ConcLines ==
  { Line(Some(m)) : m \in
      { Msg(None, Str("PING"), <<>>, Some(Str("x"))),
        Msg(Server, Str("376"), <<Str("me")>>, Some(Str("End of /MOTD command."))),
        Names(c1, <<"a", " ", "~", "b", " ", "&", "c">>),
        Names(c2, <<"a", " ", "+", "b">>),
        Msg(From("d"), Str("JOIN"), <<>>, Some(c1)),
        Msg(From("b"), Str("PART"), <<>>, Some(c1)),
        Msg(From("a"), Str("MODE"), <<c1, <<"+", "o">>, Str("a")>>, None) } }

\* HashMap::find_copy(k)
FindCopy(map, k) == IF k \in DOMAIN map THEN Some(map[k]) ELSE None

\* handle_message as the steps another thread can run between: each turn of
\* the 353 loop locks chanlists anew (mod.rs:108-113), each JOIN of the
\* 376/422 loop is one send, every other branch is one step.
IsNamesLoop(message) ==
  message.command = Str("353") /\ IsSome(message.suffix) /\ Len(message.args) = 3

IsJoinLoop(message) ==
  message.command = Str("376") \/ message.command = Str("422")

NumSteps(message, cfg) ==
  IF IsNamesLoop(message) THEN Len(SplitStr(Unwrap(message.suffix), " "))
  ELSE IF IsJoinLoop(message) THEN Len(cfg.channels)
  ELSE 1

\* The k-th step of handle_message(message), from the map cl.
Step(message, cfg, cl, k) ==
  IF IsNamesLoop(message)
  THEN Done(NamesPush(cl, message.args[3], SplitStr(Unwrap(message.suffix), " ")[k]), <<>>)
  ELSE IF IsJoinLoop(message)
  THEN Done(cl, <<HandleEndOfMotd(cfg, cl).sent[k]>>)
  ELSE HandleMessage(message, cfg, cl)

InitConc == InitServer /\ ConcUnused /\ LineUnused /\ ConnUnused

\* next() up to the call of handle_message: recv() returned Ok, from_str
\* returned Some(message).
ConcRecv ==
  /\ pc = "running"
  /\ task = Idle
  /\ Len(received) < MaxConcMsgs
  /\ \E line \in ConcLines :
       /\ received' = Append(received, line)
       /\ task' = [message |-> Unwrap(FromStr(line)), before |-> chanlists, k |-> 1]
  /\ UNCHANGED <<config, chanlists, written, cause, yielded, pc, ended>>
  /\ UNCHANGED <<queue, wire, observed, linevars, conn, build>>

\* The next step of handle_message; after the last one next() returns the
\* message.
ConcStep ==
  /\ pc = "running"
  /\ task # Idle
  /\ LET n == NumSteps(task.message, config)
         r == Step(task.message, config, chanlists, task.k)
     IN /\ chanlists' = r.chanlists
        /\ written' = written \o r.sent
        /\ cause' = cause \o [i \in 1..Len(r.sent) |-> Len(received)]
        /\ queue' = SendAll(queue, r.sent)
        /\ IF r.panicked
           THEN pc' = "panicked" /\ UNCHANGED <<task, yielded>>
           ELSE /\ pc' = pc
                /\ IF task.k >= n
                   THEN task' = Idle /\ yielded' = Append(yielded, task.message)
                   ELSE task' = [task EXCEPT !.k = @ + 1] /\ UNCHANGED yielded
  /\ UNCHANGED <<config, received, ended, wire, observed, linevars, conn, build>>

\* The second thread calls list_users(chan).  `before` and `after` are what
\* the call would return before and after the whole of the inbound message
\* the first thread is handling.
ConcListUsers ==
  /\ \E chan \in {c1, c2} :
       LET before == IF task = Idle THEN chanlists ELSE task.before
           after == IF task = Idle THEN chanlists
                    ELSE HandleMessage(task.message, config, task.before).chanlists
       IN observed' = [chan |-> chan, users |-> ListUsers(chan),
                       before |-> FindCopy(before, chan),
                       after |-> FindCopy(after, chan),
                       at |-> Len(received)]
  /\ UNCHANGED <<servervars, task, queue, wire, linevars, conn, build>>

\* The second thread calls send(command).
ConcUserSend ==
  /\ Len(written) < MaxSends
  /\ \E command \in UserCommands :
       /\ written' = Append(written, command)
       /\ cause' = Append(cause, 0)
       /\ queue' = Send(queue, command)
  /\ UNCHANGED <<config, chanlists, received, yielded, pc, ended>>
  /\ UNCHANGED <<task, wire, observed, linevars, conn, build>>

\* The connection writes the message at the head of its queue to the stream.
ConcPump ==
  /\ queue # <<>>
  /\ wire' = wire \o Serialize(Head(queue))
  /\ queue' = Tail(queue)
  /\ UNCHANGED <<servervars, task, observed, linevars, conn, build>>

NextConc == ConcRecv \/ ConcStep \/ ConcListUsers \/ ConcUserSend \/ ConcPump

SpecConc == InitConc /\ [][NextConc]_vars

\* The steps of handle_message, run to the end, leave the map handle_message
\* leaves.
StepsAreHandleMessage ==
  [][ (task # Idle /\ task' = Idle)
        => chanlists' = HandleMessage(task.message, config, task.before).chanlists ]_vars

\* C15: list_users(chan) returns none when chan has no roster and otherwise
\* the roster as it stood at one instant between inbound messages: a call
\* made while the inbound thread handles a message returns the roster from
\* before that message or the one from after it, never one in between.
C15_ListUsersSnapshot ==
  observed # Idle => observed.users \in {observed.before, observed.after}

\* Splitting a byte sequence after every "\n".
RECURSIVE SplitLines(_, _)
SplitLines(bytes, cur) ==
  IF bytes = <<>> THEN (IF cur = <<>> THEN <<>> ELSE <<cur>>)
  ELSE IF Head(bytes) = "\n"
  THEN <<Append(cur, "\n")>> \o SplitLines(Tail(bytes), <<>>)
  ELSE SplitLines(Tail(bytes), Append(cur, Head(bytes)))

EndsInCrLf(l) ==
  Len(l) >= 2 /\ l[Len(l) - 1] = "\r" /\ l[Len(l)] = "\n"

-----------------------------------------------------------------------------
\* LineCodec (src/irc-proto/src/line.rs): a buffer that only grows by the
\* bytes read from the socket, and decode called on it.

\* The number of bytes one behaviour reads.
MaxBytes == 5

\* "a" is a byte of valid text, "xFF" a byte no text encoding accepts.
Bytes == {"a", "\n", "xFF"}

ServerUnused ==
  /\ config = Idle
  /\ chanlists = [ch \in {} |-> <<>>]
  /\ written = <<>>
  /\ cause = <<>>
  /\ received = <<>>
  /\ yielded = <<>>
  /\ pc = "running"
  /\ ended = FALSE

\* The builds: with the `encoding` feature or without it.
LineBuilds == { [encoding |-> e] : e \in BOOLEAN }

\* NewlineFrom with the scan started one byte further on.
NewlineAfter(bytes, from) ==
  IF \E i \in (from + 2)..Len(bytes) : bytes[i] = "\n"
  THEN Some((CHOOSE i \in (from + 2)..Len(bytes) :
               /\ bytes[i] = "\n"
               /\ \A j \in (from + 2)..(i - 1) : bytes[j] # "\n") - (from + 1))
  ELSE None

\* src[from..].iter().position(|b| *b == b'\n'): Some(offset), counted from
\* `from`, or None.
NewlineFrom(bytes, from) ==
  IF \E i \in (from + 1)..Len(bytes) : bytes[i] = "\n"
  THEN Some((CHOOSE i \in (from + 1)..Len(bytes) :
               /\ bytes[i] = "\n"
               /\ \A j \in (from + 1)..(i - 1) : bytes[j] # "\n") - (from + 1))
  ELSE None

\* The split point with the scan start left out.
SplitAtOffset(index, offset) == offset + 1

\* split_to(self.next_index + offset + 1)
SplitAt(index, offset) == index + offset + 1

\* self.encoding.decode(line, DecoderTrap::Replace): an undecodable byte
\* becomes U+FFFD, and the trap never fails.
DecodeReplace(bytes) ==
  [i \in 1..Len(bytes) |-> IF bytes[i] = "xFF" THEN "U+FFFD" ELSE bytes[i]]

\* String::from_utf8(line.to_vec()): Err on a byte that is not UTF-8.
FromUtf8(bytes) ==
  IF \E i \in 1..Len(bytes) : bytes[i] = "xFF"
  THEN [kind |-> "err", text |-> <<>>]
  ELSE [kind |-> "line", text |-> bytes]

\* decode(&mut self, src): what it returns, the buffer and the index it
\* leaves.
Decode(b, bytes, index) ==
  LET found == NewlineFrom(bytes, index) IN
  IF IsSome(found)
  THEN LET at == SplitAt(index, Unwrap(found))
           line == SubSeq(bytes, 1, at)
       IN [result |-> IF b.encoding
                      THEN [kind |-> "line", text |-> DecodeReplace(line)]
                      ELSE FromUtf8(line),
           src |-> SubSeq(bytes, at + 1, Len(bytes)),
           next_index |-> 0]
  ELSE [result |-> [kind |-> "none", text |-> <<>>],
        src |-> bytes,
        next_index |-> Len(bytes)]

InitLine ==
  /\ ServerUnused /\ ConcUnused /\ conn = Idle
  /\ build \in LineBuilds
  /\ src = <<>>
  /\ next_index = 0
  /\ decoded = Idle
  /\ fed = <<>>
  /\ lines = <<>>

\* The framed reader appends a byte it read to the buffer.
LineAppend ==
  /\ Len(fed) < MaxBytes
  /\ \E b \in Bytes :
       /\ src' = Append(src, b)
       /\ fed' = Append(fed, b)
  /\ UNCHANGED <<servervars, concvars, next_index, decoded, lines, conn, build>>

\* The framed reader calls decode on the buffer.
LineDecode ==
  /\ LET d == Decode(build, src, next_index) IN
     /\ src' = d.src
     /\ next_index' = d.next_index
     /\ decoded' = [kind |-> d.result.kind, text |-> d.result.text, from |-> next_index]
     /\ lines' = IF d.result.kind = "line" THEN Append(lines, d.result.text) ELSE lines
  /\ UNCHANGED <<servervars, concvars, fed, conn, build>>

NextLine == LineAppend \/ LineDecode

SpecLine == InitLine /\ [][NextLine]_vars

HasNewline(bytes) == \E i \in 1..Len(bytes) : bytes[i] = "\n"

\* The length of the first "\n"-terminated line of bytes.
FirstLineLen(bytes) ==
  CHOOSE i \in 1..Len(bytes) :
    bytes[i] = "\n" /\ \A j \in 1..(i - 1) : bytes[j] # "\n"

\* C18: decode returns a line exactly when the buffer contains a \n: then
\* the line is the text of the bytes up to and including the first \n and
\* exactly those bytes leave the front of the buffer; with no \n in the
\* buffer decode returns None and the buffer keeps its contents.
C18_DecodeFramesFirstLine ==
  [][ fed' = fed =>
        IF HasNewline(src)
        THEN /\ decoded'.kind = "line"
             /\ decoded'.text = DecodeReplace(SubSeq(src, 1, FirstLineLen(src)))
             /\ src' = SubSeq(src, FirstLineLen(src) + 1, Len(src))
        ELSE /\ decoded'.kind = "none"
             /\ src' = src ]_vars

\* C19: every line the codec has yielded ends with \n and holds no other \n.
C19_LinesEndAtNewline ==
  \A k \in 1..Len(lines) :
    /\ lines[k] # <<>>
    /\ lines[k][Len(lines[k])] = "\n"
    /\ \A i \in 1..(Len(lines[k]) - 1) : lines[k][i] # "\n"

\* Two lines yielded, the second by a decode whose scan started past the
\* bytes an earlier decode had already looked at.
C19_Witness ==
  /\ Len(lines) = 2
  /\ decoded.kind = "line"
  /\ decoded.from > 0
  /\ decoded.text = lines[2]
  /\ Len(lines[2]) >= 3

-----------------------------------------------------------------------------
\* Connection::new (src/src/client/conn.rs): one construction from a Config,
\* in a build and an environment.  The construction is given by its result
\* and by the effects it had, in order: files opened, sockets connected,
\* handshakes and codecs made.

\* The builds.  With both TLS features the tls-rust new_secured_transport is
\* the one compiled, so "rust" stands for that build as well.
ConnBuilds ==
  [encoding : BOOLEAN, tls : {"none", "native", "rust"}, proxy : BOOLEAN]

\* A path option of the Config: not set, naming a file that opens, or naming
\* one that does not.
Paths == {"unset", "opens", "missing"}

\* The Config fields Connection::new reads.
ConnConfigs ==
  [use_mock_connection : BOOLEAN,
   use_tls : BOOLEAN,
   server : {None, Some(Str("irc.test.net"))},
   encoding : {"utf-8", "no-such-label"},
   cert_path : Paths,
   client_cert_path : Paths,
   dangerously_accept_invalid_certs : BOOLEAN,
   proxy : {"None", "Socks5", "Socks5 with credentials"},
   log_info : BOOLEAN]

\* What the network answers: whether the TCP connect, the SOCKS5 tunnel and
\* the TLS handshake succeed.
Envs == [tcp : BOOLEAN, socks : BOOLEAN, tls : BOOLEAN]

NetworkEffects ==
  {"tcp connect", "socks5 connect", "socks5 connect with password", "tls handshake"}

TlsEffects == {"open cert_path", "open client_cert_path", "tls handshake"}

Ok(variant, effects) ==
  [ok |-> TRUE, variant |-> variant, error |-> "", effects |-> effects]

Err(error, effects) ==
  [ok |-> FALSE, variant |-> "", error |-> error, effects |-> effects]

\* Run `next` after the step r when r succeeded, keeping r's effects.
Then(r, next) ==
  IF r.ok THEN [next EXCEPT !.effects = r.effects \o @] ELSE r

\* config.server()?
ConfigServer(cfg) ==
  IF IsSome(cfg.server) THEN Ok("", <<>>) ELSE Err("InvalidConfig: ServerNotSpecified", <<>>)

\* log::info!("...", config.server()?): the argument is evaluated when the
\* info level is enabled.
LogServer(cfg) == IF cfg.log_info THEN ConfigServer(cfg) ELSE Ok("", <<>>)

\* new_stream: a TCP connect, or a SOCKS5 tunnel in a build with `proxy`.
NewStream(b, cfg, env) ==
  Then(ConfigServer(cfg),
       IF ~b.proxy \/ cfg.proxy = "None"
       THEN IF env.tcp THEN Ok("", <<"tcp connect">>) ELSE Err("Io", <<"tcp connect">>)
       ELSE LET e == IF cfg.proxy = "Socks5 with credentials"
                     THEN "socks5 connect with password" ELSE "socks5 connect"
            IN IF env.socks THEN Ok("", <<e>>) ELSE Err("Proxy", <<e>>))

\* IrcCodec::new(label): LineCodec::new(label), which knows labels only in a
\* build with `encoding`.
CodecNew(b, cfg) ==
  IF b.encoding /\ cfg.encoding = "no-such-label"
  THEN Err("Io: InvalidInput", <<"codec new">>)
  ELSE Ok("", <<"codec new">>)

\* File::open(path) for a path option that is set.
OpenPath(path, effect) ==
  IF path = "unset" THEN Ok("", <<>>)
  ELSE IF path = "opens" THEN Ok("", <<effect>>)
  ELSE Err("InvalidConfig: FileMissing", <<effect>>)

TlsConnect(env) ==
  IF env.tls THEN Ok("", <<"tls handshake">>) ELSE Err("Tls", <<"tls handshake">>)

NewUnsecuredTransport(b, cfg, env) ==
  Then(NewStream(b, cfg, env), CodecNew(b, cfg))

\* new_secured_transport, tls-native: cert_path, client_cert_path, then the
\* server name, the stream, the handshake and the codec.
NewSecuredTransportNative(b, cfg, env) ==
  Then(OpenPath(cfg.cert_path, "open cert_path"),
  Then(OpenPath(cfg.client_cert_path, "open client_cert_path"),
  Then(ConfigServer(cfg),
  Then(NewStream(b, cfg, env),
  Then(TlsConnect(env), CodecNew(b, cfg))))))

\* new_secured_transport, tls-rust: client_cert_path first; cert_path is
\* opened only when invalid certificates are not accepted.
NewSecuredTransportRust(b, cfg, env) ==
  Then(OpenPath(cfg.client_cert_path, "open client_cert_path"),
  Then(IF cfg.dangerously_accept_invalid_certs THEN Ok("", <<>>)
       ELSE OpenPath(cfg.cert_path, "open cert_path"),
  Then(ConfigServer(cfg),
  Then(NewStream(b, cfg, env),
  Then(TlsConnect(env), CodecNew(b, cfg))))))

NewSecuredTransport(b, cfg, env) ==
  IF b.tls = "rust" THEN NewSecuredTransportRust(b, cfg, env)
  ELSE NewSecuredTransportNative(b, cfg, env)

\* new_mocked_transport: encode the initial value, make the codec.
NewMockedTransport(b, cfg, env) ==
  Then(IF b.encoding /\ cfg.encoding = "no-such-label"
       THEN Err("UnknownCodec", <<>>) ELSE Ok("", <<>>),
       CodecNew(b, cfg))

As(r, variant) == IF r.ok THEN [r EXCEPT !.variant = variant] ELSE r

\* Connection::new with the TLS test ahead of the mock test.
ConnectionNewTlsFirst(b, cfg, env) ==
  IF b.tls # "none" /\ cfg.use_tls
  THEN Then(LogServer(cfg), As(NewSecuredTransport(b, cfg, env), "Secured"))
  ELSE IF cfg.use_mock_connection
  THEN Then(LogServer(cfg), As(NewMockedTransport(b, cfg, env), "Mock"))
  ELSE Then(LogServer(cfg), As(NewUnsecuredTransport(b, cfg, env), "Unsecured"))

\* Connection::new
ConnectionNew(b, cfg, env) ==
  IF cfg.use_mock_connection
  THEN Then(LogServer(cfg), As(NewMockedTransport(b, cfg, env), "Mock"))
  ELSE IF b.tls # "none" /\ cfg.use_tls
  THEN Then(LogServer(cfg), As(NewSecuredTransport(b, cfg, env), "Secured"))
  ELSE Then(LogServer(cfg), As(NewUnsecuredTransport(b, cfg, env), "Unsecured"))

\* Config::use_tls is an option of the builds with a TLS feature only.
InitConn ==
  /\ build \in ConnBuilds
  /\ config \in ConnConfigs
  /\ build.tls = "none" => ~config.use_tls
  /\ chanlists = [ch \in {} |-> <<>>]
  /\ written = <<>>
  /\ cause = <<>>
  /\ received = <<>>
  /\ yielded = <<>>
  /\ pc = "running"
  /\ ended = FALSE
  /\ ConcUnused /\ LineUnused
  /\ conn = Idle

ConnNew ==
  /\ conn = Idle
  /\ \E env \in Envs : conn' = ConnectionNew(build, config, env)
  /\ UNCHANGED <<servervars, concvars, linevars, build>>

NextConn == ConnNew

SpecConn == InitConn /\ [][NextConn]_vars

Attempted(effects) == { conn.effects[i] : i \in 1..Len(conn.effects) } \cap effects

TlsConstruction ==
  /\ conn # Idle
  /\ ~config.use_mock_connection
  /\ config.use_tls
  /\ build.tls # "none"
  /\ IsSome(config.server)

\* C21: a TLS construction whose cert_path or client_cert_path names a file
\* that cannot be opened fails with InvalidConfig (FileMissing), whatever
\* dangerously_accept_invalid_certs is, and before any socket to the server
\* or the proxy is opened.
C21_MissingCertFileFails ==
  (TlsConstruction /\ "missing" \in {config.cert_path, config.client_cert_path})
    => /\ ~conn.ok
       /\ conn.error = "InvalidConfig: FileMissing"
       /\ Attempted(NetworkEffects) = {}

\* C22: a construction from a Config whose encoding label is unknown yields
\* no connection, and a construction that came as far as making the codec
\* fails with the unknown-codec error.
C22_UnknownLabelIsHardError ==
  (conn # Idle /\ config.encoding = "no-such-label")
    => /\ ~conn.ok
       /\ Attempted({"codec new"}) # {} => conn.error = "UnknownCodec"

\* C23: decode of a buffer whose first complete line holds an undecodable
\* byte returns that line with the replacement character in the byte's
\* place, and not an error.
C23_UndecodableByteReplaced ==
  [][ (fed' = fed /\ HasNewline(src)
         /\ \E i \in 1..FirstLineLen(src) : src[i] = "xFF")
        => /\ decoded'.kind = "line"
           /\ \E i \in 1..Len(decoded'.text) : decoded'.text[i] = "U+FFFD" ]_vars

\* A decoder that keeps no index and scans the whole buffer on each call:
\* what it returns and the buffer it leaves.
Rescan(b, bytes) ==
  IF HasNewline(bytes)
  THEN LET line == SubSeq(bytes, 1, FirstLineLen(bytes)) IN
       [result |-> IF b.encoding
                   THEN [kind |-> "line", text |-> DecodeReplace(line)]
                   ELSE FromUtf8(line),
        src |-> SubSeq(bytes, FirstLineLen(bytes) + 1, Len(bytes))]
  ELSE [result |-> [kind |-> "none", text |-> <<>>], src |-> bytes]

\* C24: the scan index never exceeds the buffer length and no byte before
\* it is \n; every decode returns what a rescan of the whole buffer returns
\* and leaves the buffer a rescan leaves; and the index is 0 after every
\* decode that split a line off.
C24_IndexIsOnlyACache ==
  /\ [](/\ next_index <= Len(src)
        /\ \A i \in 1..next_index : src[i] # "\n")
  /\ [][ fed' = fed =>
           /\ decoded'.kind = Rescan(build, src).result.kind
           /\ decoded'.text = Rescan(build, src).result.text
           /\ src' = Rescan(build, src).src
           /\ decoded'.kind # "none" => next_index' = 0 ]_vars

\* A decode that started its scan at an index past 0 and split a line off,
\* with bytes of the next line left in the buffer.
C24_Witness ==
  /\ decoded # Idle
  /\ decoded.from > 0
  /\ decoded.kind = "line"
  /\ next_index = 0
  /\ src # <<>>

\* C25: however the bytes received were cut into arriving chunks and
\* whenever decode was called, the lines yielded so far are the first lines
\* of the text of the bytes received, and the lines in order followed by the
\* bytes still buffered are the bytes received.
C25_FramingIsLossless ==
  /\ Concat(lines) \o DecodeReplace(src) = DecodeReplace(fed)
  /\ Len(lines) <= Len(SplitLines(DecodeReplace(fed), <<>>))
  /\ \A k \in 1..Len(lines) : lines[k] = SplitLines(DecodeReplace(fed), <<>>)[k]

-----------------------------------------------------------------------------
\* This step is next() reading a line that parsed.
ReadsMessage ==
  /\ Len(received') = Len(received) + 1
  /\ IsSome(received'[Len(received')].parsed)

\* C26: handling a parsed message never aborts the loop: whatever the
\* message lacks, next() returns it to the consumer and the iterator goes
\* on.
C26_HandlingNeverAborts ==
  [][ ReadsMessage => (pc' = "running" /\ yielded' = Append(yielded, StepMessage)) ]_vars

\* The channels a message names as a roster event: the last argument of a
\* 353, the first argument and the suffix of a JOIN or PART, the first
\* argument of a MODE; none for any other command.
NamedChannels(m) ==
  IF m.command = Str("353")
  THEN (IF m.args # <<>> THEN {m.args[Len(m.args)]} ELSE {})
  ELSE IF m.command = Str("JOIN") \/ m.command = Str("PART")
  THEN (IF m.args # <<>> THEN {m.args[1]} ELSE {})
       \cup (IF IsSome(m.suffix) THEN {Unwrap(m.suffix)} ELSE {})
  ELSE IF m.command = Str("MODE")
  THEN (IF m.args # <<>> THEN {m.args[1]} ELSE {})
  ELSE {}

====
